---- MODULE Spec2Model ----
(***************************************************************************)
(* Model of the sandbox of Saotri Bench (src/saotri_bench/sandbox.py):     *)
(* the import gate _check_imports, the definition tier execute_code (a     *)
(* daemon thread joined with a timeout) and the invocation tier            *)
(* execute_with_timeout (a spawned process joined with a timeout, then     *)
(* terminate / grace join / kill).                                         *)
(***************************************************************************)
EXTENDS Integers, Sequences, FiniteSets, TLC

\* ------------------------------------------------------------------ bounds
\* Number of syntax-tree nodes below the Module node of a candidate source.
MaxNodes == 2
\* Largest argument handed to an invoked callable.
MaxArg == 1
\* Number of attempts (generate_solution and refine_solution calls that got
\* an answer) an agent makes.
MaxAttempts == 8
\* Longest input list of a test case.
MaxInputLen == 2
\* Number of task directories and of models of a benchmark run.
MaxTasks == 2
MaxModels == 2

\* ------------------------------------------------------------------ values
\* Python values that cross the model: integers, strings, callables, None.
IntVal(n) == [tag |-> "int", n |-> n, s |-> ""]
StrVal(s) == [tag |-> "str", n |-> 0, s |-> s]
FuncVal(name) == [tag |-> "callable", n |-> 0, s |-> name]
NoneVal == [tag |-> "none", n |-> 0, s |-> ""]

\* The outcome a call hands to its caller: nothing yet, a raised exception
\* (class and message), or a returned value.
NoOutcome == [kind |-> "none", cls |-> "", msg |-> "", value |-> NoneVal]
Raise(cls, msg) == [kind |-> "raise", cls |-> cls, msg |-> msg, value |-> NoneVal]
Return(v) == [kind |-> "return", cls |-> "", msg |-> "", value |-> v]

\* The exception classes of the sandbox: a root and three leaves.
SandboxError == {"SandboxError", "TimeoutError", "ImportViolationError", "ExecutionError"}

\* ------------------------------------------------------- candidate sources
\* Module names are kept as their dotted components, "os.path" is
\* <<"os", "path">>; a from-import without a module name (from . import x)
\* has module None, kept as the empty sequence.
DottedNames == {<<"os">>, <<"math">>, <<"os", "path">>}
NoModule == <<>>

\* name.split(".")[0]; the hook is handed '' for a from-import without module.
RootOf(name) == IF name = <<>> THEN "" ELSE name[1]

ImportNode(names) == [type |-> "Import", names |-> names]
ImportFromNode(module, level) == [type |-> "ImportFrom", module |-> module, level |-> level]
\* A call; func is the callee expression (a bare Name or anything else),
\* arg the module name the call asks for when the callee is the load hook.
CallNode(ftype, fid, arg) == [type |-> "Call", func |-> [type |-> ftype, id |-> fid], arg |-> arg]
RaiseNode == [type |-> "Raise"]
WhileNode == [type |-> "While"]
AssignNode(target) == [type |-> "Assign", target |-> target]
\* raise Exception.__base__(): an exception that is no Exception.
RaiseBaseNode == [type |-> "RaiseBase"]
\* math.leak = 1 and x = math.leak: a write and a read of an attribute of
\* the module object bound to the name.
SetAttrNode(module) == [type |-> "SetAttr", module |-> module]
GetAttrNode(module) == [type |-> "GetAttr", module |-> module]
IfNode(body) == [type |-> "If", body |-> body]
FunctionDefNode(name, body) == [type |-> "FunctionDef", name |-> name, body |-> body]
ListCompNode(body) == [type |-> "ListComp", body |-> body]
ModuleNode(body) == [type |-> "Module", body |-> body]

\* Calls: __import__("os") by bare name, the same hook reached through an
\* expression that is not a bare name (__builtins__["__import__"]("os")),
\* and a call of an ordinary builtin.
CallNodes ==
    { CallNode("Name", "__import__", <<"os">>),
      CallNode("Subscript", "__import__", <<"os">>),
      CallNode("Name", "len", NoModule) }

\* Statements of one node: single-alias imports, from-imports, calls,
\* raise, while True: pass, f = 0, a raise of a non-Exception, a write and
\* a read of a module attribute, and def f / def g with a trivial body.
Leaves ==
    { ImportNode(<<n>>) : n \in DottedNames }
    \cup { ImportFromNode(<<"os">>, 0), ImportFromNode(<<"math">>, 0),
           ImportFromNode(NoModule, 1) }
    \cup CallNodes
    \cup { RaiseNode, WhileNode, AssignNode("f") }
    \cup { RaiseBaseNode, SetAttrNode("math"), GetAttrNode("math") }
    \cup { FunctionDefNode(n, <<>>) : n \in {"f", "g"} }

RECURSIVE AliasLists(_)
AliasLists(n) ==
    IF n = 0 THEN {<<>>}
    ELSE { <<a>> \o r : a \in DottedNames, r \in AliasLists(n - 1) }

RECURSIVE TreesOfSize(_), ForestsOfSize(_)
\* Every statement of exactly n nodes (an import counts one node per alias).
TreesOfSize(n) ==
    IF n = 0 THEN {}
    ELSE IF n = 1 THEN Leaves
    ELSE { ImportNode(a) : a \in AliasLists(n) }
         \cup { IfNode(b) : b \in ForestsOfSize(n - 1) }
         \cup { FunctionDefNode(f, b) : f \in {"f", "g"}, b \in ForestsOfSize(n - 1) }
         \cup (IF n = 2 THEN { ListCompNode(<<c>>) : c \in CallNodes } ELSE {})

\* Every statement list of exactly n nodes.
ForestsOfSize(n) ==
    IF n = 0 THEN {<<>>}
    ELSE UNION { { <<t>> \o r : t \in TreesOfSize(k), r \in ForestsOfSize(n - k) }
                 : k \in 1..n }

\* A candidate source: text that does not parse, or the tree ast.parse gives.
Sources ==
    { [ok |-> FALSE, tree |-> ModuleNode(<<>>)] }
    \cup { [ok |-> TRUE, tree |-> ModuleNode(b)] :
             b \in UNION { ForestsOfSize(n) : n \in 0..MaxNodes } }

\* allowed_imports is a list of module names.
AllowLists == { <<>>, <<"math">>, <<"os">>, <<"math", "os">> }
InList(x, list) == \E i \in 1..Len(list) : list[i] = x

\* Allow-lists that hold a name the host interpreter has no module for.
UnloadableAllowLists == { <<"nosuch">>, <<"math", "nosuch">>, <<"nosuch", "math">> }

\* The name execute_code is asked to extract.
TargetNames == {"f"}

\* Modules the host interpreter can import.
Importable == {"os", "math"}

\* ChildNodes of a walk that visits the top-level statements only.
ChildNodes_TopLevelOnly(node) ==
    IF node.type = "Module" THEN node.body ELSE <<>>

\* ast.iter_child_nodes, restricted to the nodes the model keeps.
ChildNodes(node) ==
    IF node.type \in {"Module", "If", "FunctionDef", "ListComp"} THEN node.body ELSE <<>>

\* ------------------------------------------------------------ import gate
\* The body of the loop over ast.walk(tree): the exception the node makes
\* _check_imports raise, or NoOutcome.
RECURSIVE AliasViolation(_, _)
AliasViolation(names, allowed) ==
    IF names = <<>> THEN NoOutcome
    ELSE IF ~InList(RootOf(Head(names)), allowed)
         THEN Raise("ImportViolationError", "Import is not allowed")
         ELSE AliasViolation(Tail(names), allowed)

\* CheckNode that lets a call of __import__ through when the module it asks
\* for is in the allowlist.
CheckNode_CallByAllowlist(node, allowed) ==
    IF node.type = "Import" THEN AliasViolation(node.names, allowed)
    ELSE IF node.type = "ImportFrom" THEN
        IF node.module # NoModule /\ ~InList(RootOf(node.module), allowed)
        THEN Raise("ImportViolationError", "Import from is not allowed")
        ELSE NoOutcome
    ELSE IF node.type = "Call" THEN
        IF node.func.type = "Name" /\ node.func.id = "__import__"
           /\ ~InList(RootOf(node.arg), allowed)
        THEN Raise("ImportViolationError", "Use of __import__() is not allowed")
        ELSE NoOutcome
    ELSE NoOutcome

CheckNode(node, allowed) ==
    IF node.type = "Import" THEN AliasViolation(node.names, allowed)
    ELSE IF node.type = "ImportFrom" THEN
        IF node.module # NoModule /\ ~InList(RootOf(node.module), allowed)
        THEN Raise("ImportViolationError", "Import from is not allowed")
        ELSE NoOutcome
    ELSE IF node.type = "Call" THEN
        IF node.func.type = "Name" /\ node.func.id = "__import__"
        THEN Raise("ImportViolationError", "Use of __import__() is not allowed")
        ELSE NoOutcome
    ELSE NoOutcome

\* ------------------------------------------------------------- namespaces
NsNames == {"__builtins__", "os", "math", "f", "g"}
Unbound == "unbound"
EmptyNamespace == [n \in NsNames |-> Unbound]

\* PreImport that binds nothing.
PreImport_Skip(ns, allowed) == ns

\* Lines 255-264: the namespace with the restricted builtins, then one
\* binding per allowed module the host can import.
RECURSIVE PreImport(_, _)
PreImport(ns, allowed) ==
    IF allowed = <<>> THEN ns
    ELSE PreImport(
            IF Head(allowed) \in Importable
            THEN [ns EXCEPT ![Head(allowed)] = "module"]
            ELSE ns,
            Tail(allowed))

BuildNamespace(allowed) ==
    PreImport([EmptyNamespace EXCEPT !["__builtins__"] = "builtins"], allowed)

\* _restricted_import: TRUE when the hook raises ImportError for the name.
HookRaises(name, allowed) == ~InList(RootOf(name), allowed)

\* The statements exec runs, in order: the body of an if and the element of
\* a comprehension are run, the body of a def is not.
RECURSIVE ExecSeq(_)
ExecSeq(body) ==
    IF body = <<>> THEN <<>>
    ELSE LET n == Head(body) IN
         (IF n.type \in {"If", "ListComp"} THEN ExecSeq(n.body) ELSE <<n>>)
         \o ExecSeq(Tail(body))

\* One statement run by exec in the namespace: the namespace afterwards and
\* how the statement ended ("ok", "loop", or the name of the exception).
RECURSIVE RunImport(_, _, _)
RunImport(names, ns, allowed) ==
    IF names = <<>> THEN [ns |-> ns, end |-> "ok"]
    ELSE IF HookRaises(Head(names), allowed) THEN [ns |-> ns, end |-> "ImportError"]
    ELSE RunImport(Tail(names), [ns EXCEPT ![RootOf(Head(names))] = "module"], allowed)

\* The modules whose objects a candidate can write an attribute on. The
\* objects are those of the host interpreter (sys.modules): attrs is the
\* set of modules that carry the attribute.
AttrModules == {"math"}

\* A statement that touches an attribute of a module: NameError when the
\* name is not bound, AttributeError when the attribute was never written.
RunAttr(node, ns, attrs) ==
    IF ns[node.module] = Unbound THEN [end |-> "NameError", attrs |-> attrs]
    ELSE IF node.type = "SetAttr" THEN [end |-> "ok", attrs |-> attrs \cup {node.module}]
    ELSE IF node.module \in attrs THEN [end |-> "ok", attrs |-> attrs]
    ELSE [end |-> "AttributeError", attrs |-> attrs]

RunStmt(node, ns, allowed, attrs) ==
    IF node.type = "Import" THEN
        [ns |-> RunImport(node.names, ns, allowed).ns,
         end |-> RunImport(node.names, ns, allowed).end, attrs |-> attrs]
    ELSE IF node.type = "ImportFrom" THEN
        [ns |-> ns, end |-> IF HookRaises(node.module, allowed) THEN "ImportError" ELSE "ok",
         attrs |-> attrs]
    ELSE IF node.type = "Call" THEN
        [ns |-> ns,
         end |-> IF node.func.id = "__import__" /\ HookRaises(node.arg, allowed)
                 THEN "ImportError" ELSE "ok",
         attrs |-> attrs]
    ELSE IF node.type = "Raise" THEN [ns |-> ns, end |-> "Exception", attrs |-> attrs]
    ELSE IF node.type = "RaiseBase" THEN [ns |-> ns, end |-> "BaseException", attrs |-> attrs]
    ELSE IF node.type = "While" THEN [ns |-> ns, end |-> "loop", attrs |-> attrs]
    ELSE IF node.type = "Assign" THEN
        [ns |-> [ns EXCEPT ![node.target] = "value"], end |-> "ok", attrs |-> attrs]
    ELSE IF node.type = "FunctionDef" THEN
        [ns |-> [ns EXCEPT ![node.name] = "callable"], end |-> "ok", attrs |-> attrs]
    ELSE IF node.type \in {"SetAttr", "GetAttr"} THEN
        [ns |-> ns, end |-> RunAttr(node, ns, attrs).end, attrs |-> RunAttr(node, ns, attrs).attrs]
    ELSE [ns |-> ns, end |-> "ok", attrs |-> attrs]

\* exec over a statement list from a given state: the state in which it
\* stops and how ("ok" when the list is exhausted).
RECURSIVE RunAll(_, _, _, _)
RunAll(stmts, ns, allowed, attrs) ==
    IF stmts = <<>> THEN [ns |-> ns, end |-> "ok", attrs |-> attrs]
    ELSE LET r == RunStmt(Head(stmts), ns, allowed, attrs) IN
         IF r.end = "ok" THEN RunAll(Tail(stmts), r.ns, allowed, r.attrs) ELSE r


\* ------------------------------------------------------------------- state
VARIABLES
    op,               \* the sandbox operation in progress, "idle" between calls
    pc,               \* the caller's position inside the operation
    outcome,          \* what the operation handed to its caller
    code,             \* execute_code: the candidate source
    function_name,    \* execute_code: the target name
    allowed_imports,  \* execute_code: the allowlist
    gate,             \* _check_imports: "none", "running", "passed", "raised"
    todo,             \* _check_imports: the queue of ast.walk
    namespace,        \* execute_code: the execution namespace
    exec_error,       \* execute_code: the worker's error list
    thread,           \* execute_code: worker thread "none", "alive", "finished"
    wpos,             \* execute_code: the statement the worker runs next
    func,             \* execute_with_timeout: the callable
    args,             \* execute_with_timeout: its argument
    process,          \* worker process "none", "running", "flushing", "exited"
    exit_cause,       \* why the process exited: "none", "self", "sigterm", "sigkill"
    result_queue,     \* the result channel
    sigterm,          \* process.terminate() was called
    sigkill,          \* process.kill() was called
    budget_wait,      \* how join(timeout) ended: "none", "finished", "elapsed"
    worker_put,       \* the worker has put a message on the channel
    put_in_budget,    \* a message was on the channel when the budget wait ended
    alive_seen,       \* what is_alive() answered after the budget wait
    grace_wait,       \* how join(timeout=1) ended: "none", "finished", "elapsed"
    alive_at_raise,   \* the process was running when TimeoutError was raised
    module_attrs,     \* host modules carrying an attribute a candidate wrote
    modules_at_start, \* module_attrs when the worker thread was started
    abandoned,        \* the worker thread of an earlier call that timed out
    held,             \* the caller holds the callable the last execute_code returned
    from_code,        \* func of this call is that callable
    prev,             \* the previous execute_with_timeout call, while this one repeats it
    process_args,     \* the kinds of the objects in the args tuple of the Process
    conversation_history, \* CodingAgent.conversation_history
    attempts,         \* len(CodingAgent.attempts)
    agent_pc,         \* where the agent's caller is inside generate/refine
    tracked,          \* generate_solution was called and no chat has raised since
    check,            \* the Evaluator method that is running
    tc_input,         \* test_case.input, a list
    tc_expected,      \* test_case.expected
    tc_tags,          \* test_case.tags
    solution_fn,      \* what the solution does to its argument and what it returns
    input_copy,       \* the list input_copy refers to
    arg_ref,          \* the object the solution is called on
    results,          \* the values the solution returned in this check
    rule_result,      \* the RuleResult the check returns
    eval_pc,          \* where the check is
    input_at_call,    \* test_case.input when the check was entered
    arg_before,       \* the argument as it was when the solution was last called
    task_dirs,        \* number of resolved task directories
    models,           \* number of resolved models
    task_idx,         \* position of the outer loop of main
    model_idx,        \* position of the inner loop of main
    bench_pc,         \* where main is
    attempted,        \* the (task, model) pairs run_agent_on_task was called for
    failed_runs,      \* the pairs whose try block ended in the except clause
    task_results,     \* main's task_results
    all_results,      \* main's all_results
    comparison_reports, \* per task, the results handed to save_comparison_report
    full_report,      \* the results handed to save_full_report
    return_code       \* what main returned

ecVars == <<code, function_name, allowed_imports, gate, todo, namespace, exec_error, thread, wpos>>
ewVars == <<func, args, process, exit_cause, result_queue, sigterm, sigkill,
            worker_put, put_in_budget, grace_wait, alive_at_raise>>
hostVars == <<module_attrs, modules_at_start, abandoned>>
callerVars == <<held, from_code, prev, process_args>>
sandboxVars == <<op, pc, outcome, ecVars, ewVars, budget_wait, alive_seen, hostVars, callerVars>>
agentVars == <<conversation_history, attempts, agent_pc, tracked>>
evaluatorVars == <<check, tc_input, tc_expected, tc_tags, solution_fn, input_copy, arg_ref,
                   results, rule_result, eval_pc, input_at_call, arg_before>>
benchVars == <<task_dirs, models, task_idx, model_idx, bench_pc, attempted, failed_runs,
               task_results, all_results, comparison_reports, full_report, return_code>>
otherVars == <<agentVars, evaluatorVars, benchVars>>
vars == <<sandboxVars, otherVars>>

\* What a callable does when the worker process calls it, and whether it
\* has made the process ignore the termination signal.
Behaviours == {"return", "raise", "loop", "crash"}
Callables == [beh : Behaviours, ignores_term : BOOLEAN]
ArgValues == 0..MaxArg

\* The value the modelled callable returns: def f(x): return x * 2.
Apply(f, a) == IntVal(a * 2)

NoSource == [ok |-> FALSE, tree |-> ModuleNode(<<>>)]
NoCallable == [beh |-> "return", ignores_term |-> FALSE]
\* No abandoned thread is running. Of a running one the model keeps what it
\* still does outside the objects of its own call: the modules it will write
\* an attribute on, and whether it ends in a statement that loops forever.
NoAbandoned == [live |-> FALSE, writes |-> {}, loops |-> FALSE]
NoPrev == [set |-> FALSE, func |-> NoCallable, args |-> 0, outcome |-> NoOutcome]

\* CodingAgent.__init__ (agent.py:46-55): no attempt, an empty conversation.
AgentInit ==
    /\ conversation_history = <<>>
    /\ attempts = 0
    /\ agent_pc = "idle"
    /\ tracked = FALSE

\* evaluator.py: the lists, the solutions and the test cases.
InputValues == {0, 1}
Lists(n) == UNION { [1..k -> InputValues] : k \in 0..n }
Mutations == {"none", "append", "clear", "set_first"}
ReturnKinds == {"filtered", "argument", "counter", "raise"}
Solutions == [mutation : Mutations, ret : ReturnKinds]
TagLists == {<<>>, <<"basic">>}
NoSolution == [mutation |-> "none", ret |-> "filtered"]
NoResult == [ok |-> TRUE, scope |-> ""]

\* No check is running.
EvaluatorInit ==
    /\ check = "none"
    /\ tc_input = <<>>
    /\ tc_expected = <<>>
    /\ tc_tags = <<>>
    /\ solution_fn = NoSolution
    /\ input_copy = <<>>
    /\ arg_ref = "none"
    /\ results = <<>>
    /\ rule_result = NoResult
    /\ eval_pc = "idle"
    /\ input_at_call = <<>>
    /\ arg_before = <<>>

\* run_benchmark.py: main has not been entered.
NoReport == <<"none">>
BenchInit ==
    /\ task_dirs = 0
    /\ models = 0
    /\ task_idx = 0
    /\ model_idx = 0
    /\ bench_pc = "idle"
    /\ attempted = <<>>
    /\ failed_runs = {}
    /\ task_results = <<>>
    /\ all_results = <<>>
    /\ comparison_reports = <<>>
    /\ full_report = NoReport
    /\ return_code = -1

Init ==
    /\ AgentInit
    /\ EvaluatorInit
    /\ BenchInit
    /\ op = "idle"
    /\ pc = "idle"
    /\ outcome = NoOutcome
    /\ code = NoSource
    /\ function_name = "f"
    /\ allowed_imports = <<>>
    /\ gate = "none"
    /\ todo = <<>>
    /\ namespace = EmptyNamespace
    /\ exec_error = <<>>
    /\ thread = "none"
    /\ wpos = 1
    /\ func = NoCallable
    /\ args = 0
    /\ process = "none"
    /\ exit_cause = "none"
    /\ result_queue = <<>>
    /\ sigterm = FALSE
    /\ sigkill = FALSE
    /\ budget_wait = "none"
    /\ worker_put = FALSE
    /\ put_in_budget = FALSE
    /\ alive_seen = "none"
    /\ grace_wait = "none"
    /\ alive_at_raise = FALSE
    /\ module_attrs = {}
    /\ modules_at_start = {}
    /\ abandoned = NoAbandoned
    /\ held = FALSE
    /\ from_code = FALSE
    /\ prev = NoPrev
    /\ process_args = <<>>

\* ----------------------------------------------------------- execute_code
\* ExecuteCodeCall without the call of _check_imports at line 252.
ExecuteCodeCall_NoGate(c, fn, al) ==
    /\ op = "idle" /\ ~held /\ ~prev.set
    /\ op' = "execute_code"
    /\ pc' = "build"
    /\ code' = c
    /\ function_name' = fn
    /\ allowed_imports' = al
    /\ UNCHANGED <<outcome, gate, todo, namespace, exec_error, thread, wpos, ewVars,
                   budget_wait, alive_seen>>
    /\ UNCHANGED <<hostVars, callerVars>>
    /\ UNCHANGED otherVars

\* The caller enters execute_code; line 252 calls _check_imports. A caller
\* that starts a new definition has kept nothing of the calls before it.
ExecuteCodeCall(c, fn, al) ==
    /\ op = "idle" /\ ~held /\ ~prev.set
    /\ op' = "execute_code"
    /\ pc' = "check_imports"
    /\ code' = c
    /\ function_name' = fn
    /\ allowed_imports' = al
    /\ gate' = "running"
    /\ UNCHANGED <<outcome, todo, namespace, exec_error, thread, wpos, ewVars,
                   budget_wait, alive_seen>>
    /\ UNCHANGED <<hostVars, callerVars>>
    /\ UNCHANGED otherVars

\* CheckImportsParse that swallows the SyntaxError and goes on with an
\* empty tree.
CheckImportsParse_Swallow ==
    /\ op = "execute_code" /\ pc = "check_imports"
    /\ todo' = <<code.tree>>
    /\ pc' = "walk"
    /\ UNCHANGED <<gate, outcome>>
    /\ UNCHANGED <<op, code, function_name, allowed_imports, namespace, exec_error,
                   thread, wpos, ewVars, budget_wait, alive_seen>>
    /\ UNCHANGED <<hostVars, callerVars>>
    /\ UNCHANGED otherVars

\* Lines 46-49: ast.parse; a SyntaxError becomes ExecutionError.
CheckImportsParse ==
    /\ op = "execute_code" /\ pc = "check_imports"
    /\ IF code.ok
       THEN /\ todo' = <<code.tree>>
            /\ pc' = "walk"
            /\ UNCHANGED <<gate, outcome>>
       ELSE /\ outcome' = Raise("ExecutionError", "Syntax error")
            /\ gate' = "raised"
            /\ pc' = "done"
            /\ UNCHANGED todo
    /\ UNCHANGED <<op, code, function_name, allowed_imports, namespace, exec_error,
                   thread, wpos, ewVars, budget_wait, alive_seen>>
    /\ UNCHANGED <<hostVars, callerVars>>
    /\ UNCHANGED otherVars

\* Lines 51-75: one turn of the loop over ast.walk: pop the next node, queue
\* its children, check the node.
CheckImportsWalk ==
    /\ op = "execute_code" /\ pc = "walk" /\ todo # <<>>
    /\ LET node == Head(todo)
           verdict == CheckNode(node, allowed_imports)
       IN  /\ todo' = Tail(todo) \o ChildNodes(node)
           /\ IF verdict = NoOutcome
              THEN UNCHANGED <<pc, gate, outcome>>
              ELSE /\ outcome' = verdict
                   /\ gate' = "raised"
                   /\ pc' = "done"
    /\ UNCHANGED <<op, code, function_name, allowed_imports, namespace, exec_error,
                   thread, wpos, ewVars, budget_wait, alive_seen>>
    /\ UNCHANGED <<hostVars, callerVars>>
    /\ UNCHANGED otherVars

\* The walk is exhausted: _check_imports returns without raising.
CheckImportsReturn ==
    /\ op = "execute_code" /\ pc = "walk" /\ todo = <<>>
    /\ gate' = "passed"
    /\ pc' = "build"
    /\ UNCHANGED <<op, outcome, code, function_name, allowed_imports, todo, namespace,
                   exec_error, thread, wpos, ewVars, budget_wait, alive_seen>>
    /\ UNCHANGED <<hostVars, callerVars>>
    /\ UNCHANGED otherVars

\* Lines 255-267: the namespace is built, the allowed modules are
\* pre-imported and the error list is created.
NamespaceBuild ==
    /\ op = "execute_code" /\ pc = "build"
    /\ namespace' = BuildNamespace(allowed_imports)
    /\ exec_error' = <<>>
    /\ pc' = "start"
    /\ UNCHANGED <<op, outcome, code, function_name, allowed_imports, gate, todo, thread,
                   wpos, ewVars, budget_wait, alive_seen>>
    /\ UNCHANGED <<hostVars, callerVars>>
    /\ UNCHANGED otherVars

\* Lines 277-278: the daemon worker thread is created and started.
ThreadStart ==
    /\ op = "execute_code" /\ pc = "start"
    /\ thread' = "alive"
    /\ wpos' = 1
    /\ pc' = "join"
    /\ UNCHANGED <<op, outcome, code, function_name, allowed_imports, gate, todo, namespace,
                   exec_error, ewVars, budget_wait, alive_seen>>
    /\ modules_at_start' = module_attrs
    /\ UNCHANGED <<module_attrs, abandoned, callerVars>>
    /\ UNCHANGED otherVars

\* Lines 269-275, _exec_worker: exec runs the next statement of the source.
\* A statement that loops forever never completes a step; an exception that
\* is no Exception passes both except clauses and ends the thread.
ExecWorkerStep ==
    /\ thread = "alive"
    /\ wpos <= Len(ExecSeq(code.tree.body))
    /\ LET r == RunStmt(ExecSeq(code.tree.body)[wpos], namespace, allowed_imports, module_attrs)
       IN  /\ r.end # "loop"
           /\ namespace' = r.ns
           /\ module_attrs' = r.attrs
           /\ IF r.end = "ok"
              THEN /\ wpos' = wpos + 1
                   /\ UNCHANGED <<exec_error, thread>>
              ELSE /\ exec_error' = IF r.end = "BaseException"
                                    THEN exec_error
                                    ELSE Append(exec_error, Raise("ExecutionError", r.end))
                   /\ thread' = "finished"
                   /\ UNCHANGED wpos
    /\ UNCHANGED <<op, pc, outcome, code, function_name, allowed_imports, gate, todo, ewVars,
                   budget_wait, alive_seen, modules_at_start, abandoned, callerVars>>
    /\ UNCHANGED otherVars

\* exec returned: the worker function returns and the thread ends.
ExecWorkerExit ==
    /\ thread = "alive"
    /\ wpos > Len(ExecSeq(code.tree.body))
    /\ thread' = "finished"
    /\ UNCHANGED <<op, pc, outcome, code, function_name, allowed_imports, gate, todo, namespace,
                   exec_error, wpos, ewVars, budget_wait, alive_seen>>
    /\ UNCHANGED <<hostVars, callerVars>>
    /\ UNCHANGED otherVars

\* Line 279, thread.join(timeout): the thread ended within the budget.
ThreadJoinFinished ==
    /\ op = "execute_code" /\ pc = "join"
    /\ thread = "finished"
    /\ budget_wait' = "finished"
    /\ pc' = "is_alive"
    /\ UNCHANGED <<op, outcome, ecVars, ewVars, alive_seen>>
    /\ UNCHANGED <<hostVars, callerVars>>
    /\ UNCHANGED otherVars

\* ThreadJoinTimeout of a join() without timeout: it returns only once the
\* thread has ended.
ThreadJoinTimeout_Blocking ==
    /\ op = "execute_code" /\ pc = "join"
    /\ thread = "finished"
    /\ budget_wait' = "elapsed"
    /\ pc' = "is_alive"
    /\ UNCHANGED <<op, outcome, ecVars, ewVars, alive_seen>>
    /\ UNCHANGED <<hostVars, callerVars>>
    /\ UNCHANGED otherVars

\* Line 279, thread.join(timeout): the budget elapsed with the thread running.
ThreadJoinTimeout ==
    /\ op = "execute_code" /\ pc = "join"
    /\ thread = "alive"
    /\ budget_wait' = "elapsed"
    /\ pc' = "is_alive"
    /\ UNCHANGED <<op, outcome, ecVars, ewVars, alive_seen>>
    /\ UNCHANGED <<hostVars, callerVars>>
    /\ UNCHANGED otherVars

\* Lines 287-298: the worker's error, else the lookup of the target.
DefinitionResult(errors, ns, fn) ==
    IF errors # <<>> THEN errors[1]
    ELSE IF ns[fn] = Unbound THEN Raise("ExecutionError", "Function not found in code")
    ELSE IF ns[fn] # "callable" THEN Raise("ExecutionError", "is not callable")
    ELSE Return(FuncVal(fn))

\* ThreadIsAlive that reads the result whatever is_alive() answered.
ThreadIsAlive_NoTimeout ==
    /\ op = "execute_code" /\ pc = "is_alive"
    /\ alive_seen' = IF thread = "alive" THEN "alive" ELSE "dead"
    /\ outcome' = DefinitionResult(exec_error, namespace, function_name)
    /\ pc' = "done"
    /\ UNCHANGED <<op, ecVars, ewVars, budget_wait>>
    /\ UNCHANGED <<hostVars, callerVars>>
    /\ UNCHANGED otherVars

\* Lines 281-298: is_alive() decides between TimeoutError and the result.
ThreadIsAlive ==
    /\ op = "execute_code" /\ pc = "is_alive"
    /\ alive_seen' = IF thread = "alive" THEN "alive" ELSE "dead"
    /\ outcome' = IF thread = "alive"
                  THEN Raise("TimeoutError", "Code definition timed out")
                  ELSE DefinitionResult(exec_error, namespace, function_name)
    /\ pc' = "done"
    /\ UNCHANGED <<op, ecVars, ewVars, budget_wait>>
    /\ UNCHANGED <<hostVars, callerVars>>
    /\ UNCHANGED otherVars

ExecuteCodeNext ==
    \/ /\ op = "idle" /\ ~held /\ ~prev.set
       /\ \E c \in Sources, fn \in TargetNames, al \in AllowLists : ExecuteCodeCall(c, fn, al)
    \/ CheckImportsParse
    \/ CheckImportsWalk
    \/ CheckImportsReturn
    \/ NamespaceBuild
    \/ ThreadStart
    \/ ExecWorkerStep
    \/ ExecWorkerExit
    \/ ThreadJoinFinished
    \/ ThreadJoinTimeout
    \/ ThreadIsAlive


\* --------------------------------------------------- execute_with_timeout
\* Lines 333-336: the spawn context, the result queue and the Process object.
ExecuteWithTimeoutCall(f, a) ==
    /\ op = "idle"
    /\ op' = "execute_with_timeout"
    /\ pc' = "start"
    /\ func' = f
    /\ args' = a
    /\ result_queue' = <<>>
    /\ UNCHANGED <<outcome, ecVars, process, exit_cause, sigterm, sigkill, worker_put, put_in_budget,
                   grace_wait, alive_at_raise, budget_wait, alive_seen>>
    /\ process_args' = <<"callable", "arguments", "queue">>
    /\ from_code' = held
    /\ prev' = IF prev.set /\ prev.func = f /\ prev.args = a THEN prev ELSE NoPrev
    /\ UNCHANGED <<hostVars, held>>
    /\ UNCHANGED otherVars

\* Line 337, process.start(): the child process is spawned and runs worker.
ProcessStart ==
    /\ op = "execute_with_timeout" /\ pc = "start"
    /\ process' = "running"
    /\ pc' = "join"
    /\ UNCHANGED <<op, outcome, ecVars, func, args, exit_cause, result_queue, sigterm, sigkill,
                   worker_put, put_in_budget, grace_wait, alive_at_raise, budget_wait, alive_seen>>
    /\ UNCHANGED <<hostVars, callerVars>>
    /\ UNCHANGED otherVars

\* Line 337, process.start(): the spawn context pickles the Process object
\* (target, callable, arguments) in the parent; when that fails the
\* exception of the pickler leaves execute_with_timeout and no child exists.
ProcessStartRaises ==
    /\ op = "execute_with_timeout" /\ pc = "start"
    /\ outcome' = Raise("AttributeError", "Can't pickle local object")
    /\ pc' = "done"
    /\ UNCHANGED <<op, ecVars, ewVars, budget_wait, alive_seen>>
    /\ UNCHANGED <<hostVars, callerVars>>
    /\ UNCHANGED otherVars

\* Lines 326-330, worker: func(*args) returned or raised an Exception and the
\* message is put on the queue; the process lives until the queue's feeder
\* has flushed it.
WorkerMessage(f, a) ==
    IF f.beh = "return"
    THEN [status |-> "success", result |-> Apply(f, a)]
    ELSE [status |-> "error", result |-> StrVal("ValueError: boom")]

WorkerPut ==
    /\ process = "running"
    /\ func.beh \in {"return", "raise"}
    /\ result_queue' = Append(result_queue, WorkerMessage(func, args))
    /\ process' = "flushing"
    /\ worker_put' = TRUE
    /\ UNCHANGED <<op, pc, outcome, ecVars, func, args, exit_cause, sigterm, sigkill,
                   put_in_budget, grace_wait, alive_at_raise, budget_wait, alive_seen>>
    /\ UNCHANGED <<hostVars, callerVars>>
    /\ UNCHANGED otherVars

\* The worker process ends by itself after its message was flushed.
WorkerExit ==
    /\ process = "flushing"
    /\ process' = "exited"
    /\ exit_cause' = "self"
    /\ UNCHANGED <<op, pc, outcome, ecVars, func, args, result_queue, sigterm, sigkill,
                   worker_put, put_in_budget, grace_wait, alive_at_raise, budget_wait, alive_seen>>
    /\ UNCHANGED <<hostVars, callerVars>>
    /\ UNCHANGED otherVars

\* The worker process dies inside func without reaching either put (an
\* exception that is no Exception, a fault of the interpreter).
WorkerCrash ==
    /\ process = "running"
    /\ func.beh = "crash"
    /\ process' = "exited"
    /\ exit_cause' = "self"
    /\ UNCHANGED <<op, pc, outcome, ecVars, func, args, result_queue, sigterm, sigkill,
                   worker_put, put_in_budget, grace_wait, alive_at_raise, budget_wait, alive_seen>>
    /\ UNCHANGED <<hostVars, callerVars>>
    /\ UNCHANGED otherVars

\* SIGTERM reaches a process that does not ignore it.
SigtermDelivered ==
    /\ sigterm
    /\ process \in {"running", "flushing"}
    /\ ~func.ignores_term
    /\ process' = "exited"
    /\ exit_cause' = "sigterm"
    /\ UNCHANGED <<op, pc, outcome, ecVars, func, args, result_queue, sigterm, sigkill,
                   worker_put, put_in_budget, grace_wait, alive_at_raise, budget_wait, alive_seen>>
    /\ UNCHANGED <<hostVars, callerVars>>
    /\ UNCHANGED otherVars

\* SIGKILL reaches the process.
SigkillDelivered ==
    /\ sigkill
    /\ process \in {"running", "flushing"}
    /\ process' = "exited"
    /\ exit_cause' = "sigkill"
    /\ UNCHANGED <<op, pc, outcome, ecVars, func, args, result_queue, sigterm, sigkill,
                   worker_put, put_in_budget, grace_wait, alive_at_raise, budget_wait, alive_seen>>
    /\ UNCHANGED <<hostVars, callerVars>>
    /\ UNCHANGED otherVars

ProcessAlive == process \in {"running", "flushing"}

\* Line 338, process.join(timeout): the process ended within the budget.
ProcessJoinFinished ==
    /\ op = "execute_with_timeout" /\ pc = "join"
    /\ process = "exited"
    /\ budget_wait' = "finished"
    /\ put_in_budget' = worker_put
    /\ pc' = "is_alive"
    /\ UNCHANGED <<op, outcome, ecVars, func, args, process, exit_cause, result_queue, sigterm,
                   sigkill, worker_put, grace_wait, alive_at_raise, alive_seen>>
    /\ UNCHANGED <<hostVars, callerVars>>
    /\ UNCHANGED otherVars

\* Line 338, process.join(timeout): the budget elapsed, the process running.
ProcessJoinTimeout ==
    /\ op = "execute_with_timeout" /\ pc = "join"
    /\ ProcessAlive
    /\ budget_wait' = "elapsed"
    /\ put_in_budget' = worker_put
    /\ pc' = "is_alive"
    /\ UNCHANGED <<op, outcome, ecVars, func, args, process, exit_cause, result_queue, sigterm,
                   sigkill, worker_put, grace_wait, alive_at_raise, alive_seen>>
    /\ UNCHANGED <<hostVars, callerVars>>
    /\ UNCHANGED otherVars

\* InvocationResult without the result_queue.empty() test of line 347.
InvocationResult_NoEmptyTest(queue) ==
    IF queue = <<>>
    THEN Return(NoneVal)
    ELSE IF Head(queue).status = "error"
         THEN Raise("ExecutionError", Head(queue).result.s)
         ELSE Return(Head(queue).result)

\* Lines 347-354: an empty queue is a crash; else the message is returned
\* or raised.
InvocationResult(queue) ==
    IF queue = <<>>
    THEN Raise("ExecutionError", "Process ended without returning a result")
    ELSE IF Head(queue).status = "error"
         THEN Raise("ExecutionError", Head(queue).result.s)
         ELSE Return(Head(queue).result)

\* Lines 340-341 and 347-354: is_alive(); a live process is sent SIGTERM,
\* a dead one has its queue read.
ProcessIsAlive ==
    /\ op = "execute_with_timeout" /\ pc = "is_alive"
    /\ IF ProcessAlive
       THEN /\ alive_seen' = "alive"
            /\ sigterm' = TRUE
            /\ pc' = "grace_join"
            /\ UNCHANGED <<outcome, result_queue>>
       ELSE /\ alive_seen' = "dead"
            /\ outcome' = InvocationResult(result_queue)
            /\ result_queue' = IF result_queue = <<>> THEN <<>> ELSE Tail(result_queue)
            /\ pc' = "done"
            /\ UNCHANGED sigterm
    /\ UNCHANGED <<op, ecVars, func, args, process, exit_cause, sigkill, worker_put, put_in_budget,
                   grace_wait, alive_at_raise, budget_wait>>
    /\ UNCHANGED <<hostVars, callerVars>>
    /\ UNCHANGED otherVars

\* Line 342, process.join(timeout=1): the process ended in the grace period.
GraceJoinFinished ==
    /\ op = "execute_with_timeout" /\ pc = "grace_join"
    /\ process = "exited"
    /\ grace_wait' = "finished"
    /\ pc' = "is_alive_2"
    /\ UNCHANGED <<op, outcome, ecVars, func, args, process, exit_cause, result_queue, sigterm,
                   sigkill, worker_put, put_in_budget, alive_at_raise, budget_wait, alive_seen>>
    /\ UNCHANGED <<hostVars, callerVars>>
    /\ UNCHANGED otherVars

\* Line 342, process.join(timeout=1): the grace period elapsed.
GraceJoinTimeout ==
    /\ op = "execute_with_timeout" /\ pc = "grace_join"
    /\ ProcessAlive
    /\ grace_wait' = "elapsed"
    /\ pc' = "is_alive_2"
    /\ UNCHANGED <<op, outcome, ecVars, func, args, process, exit_cause, result_queue, sigterm,
                   sigkill, worker_put, put_in_budget, alive_at_raise, budget_wait, alive_seen>>
    /\ UNCHANGED <<hostVars, callerVars>>
    /\ UNCHANGED otherVars

\* ProcessKill that sends SIGKILL without asking is_alive().
ProcessKill_Always ==
    /\ op = "execute_with_timeout" /\ pc = "is_alive_2"
    /\ sigkill' = TRUE
    /\ pc' = "raise_timeout"
    /\ UNCHANGED <<op, outcome, ecVars, func, args, process, exit_cause, result_queue, sigterm,
                   worker_put, put_in_budget, grace_wait, alive_at_raise, budget_wait, alive_seen>>
    /\ UNCHANGED <<hostVars, callerVars>>
    /\ UNCHANGED otherVars

\* Lines 343-344: is_alive() again; a live process is sent SIGKILL.
ProcessKill ==
    /\ op = "execute_with_timeout" /\ pc = "is_alive_2"
    /\ sigkill' = ProcessAlive
    /\ pc' = "raise_timeout"
    /\ UNCHANGED <<op, outcome, ecVars, func, args, process, exit_cause, result_queue, sigterm,
                   worker_put, put_in_budget, grace_wait, alive_at_raise, budget_wait, alive_seen>>
    /\ UNCHANGED <<hostVars, callerVars>>
    /\ UNCHANGED otherVars

\* Line 345: TimeoutError is raised.
RaiseTimeout ==
    /\ op = "execute_with_timeout" /\ pc = "raise_timeout"
    /\ outcome' = Raise("TimeoutError", "Execution timed out")
    /\ alive_at_raise' = ProcessAlive
    /\ pc' = "done"
    /\ UNCHANGED <<op, ecVars, func, args, process, exit_cause, result_queue, sigterm, sigkill,
                   worker_put, put_in_budget, grace_wait, budget_wait, alive_seen>>
    /\ UNCHANGED <<hostVars, callerVars>>
    /\ UNCHANGED otherVars

ExecuteWithTimeoutNext ==
    \/ /\ op = "idle"
       /\ \E f \in Callables, a \in ArgValues : ExecuteWithTimeoutCall(f, a)
    \/ ProcessStart
    \/ ProcessStartRaises
    \/ WorkerPut
    \/ WorkerExit
    \/ WorkerCrash
    \/ SigtermDelivered
    \/ SigkillDelivered
    \/ ProcessJoinFinished
    \/ ProcessJoinTimeout
    \/ ProcessIsAlive
    \/ GraceJoinFinished
    \/ GraceJoinTimeout
    \/ ProcessKill
    \/ RaiseTimeout

\* The caller has the outcome; the call's objects are dropped and the next
\* call can be made. A caller that goes on to invoke keeps the callable that
\* execute_code returned and the outcome of its invocation; a caller that
\* goes on to another definition keeps neither.
ReturnToCaller(keep) ==
    /\ op # "idle" /\ pc = "done"
    /\ op' = "idle"
    /\ pc' = "idle"
    /\ outcome' = NoOutcome
    /\ code' = NoSource
    /\ function_name' = "f"
    /\ allowed_imports' = <<>>
    /\ gate' = "none"
    /\ todo' = <<>>
    /\ namespace' = EmptyNamespace
    /\ exec_error' = <<>>
    /\ thread' = "none"
    /\ wpos' = 1
    /\ func' = NoCallable
    /\ args' = 0
    /\ process' = "none"
    /\ exit_cause' = "none"
    /\ result_queue' = <<>>
    /\ sigterm' = FALSE
    /\ sigkill' = FALSE
    /\ budget_wait' = "none"
    /\ worker_put' = FALSE
    /\ put_in_budget' = FALSE
    /\ alive_seen' = "none"
    /\ grace_wait' = "none"
    /\ alive_at_raise' = FALSE
    /\ modules_at_start' = {}
    /\ held' = (keep /\ IF op = "execute_code" THEN outcome.kind = "return" ELSE held)
    /\ from_code' = FALSE
    /\ prev' = IF keep /\ op = "execute_with_timeout"
               THEN [set |-> TRUE, func |-> func, args |-> args, outcome |-> outcome]
               ELSE NoPrev
    /\ process_args' = <<>>
    /\ UNCHANGED module_attrs
    /\ UNCHANGED otherVars

CallReturns(keep) ==
    /\ ReturnToCaller(keep)
    /\ UNCHANGED abandoned

\* execute_code has raised TimeoutError (lines 281-285) and returns to the
\* caller while its daemon thread is still running exec: the thread keeps
\* the namespace and the error list of its call and goes on. One abandoned
\* thread is followed at a time.
AbandonedReturns ==
    /\ op = "execute_code" /\ thread = "alive"
    /\ ~abandoned.live
    /\ ReturnToCaller(FALSE)
    /\ LET stmts == ExecSeq(code.tree.body)
           r == RunAll(SubSeq(stmts, wpos, Len(stmts)), namespace, allowed_imports, module_attrs)
       IN  abandoned' = [live |-> TRUE, writes |-> r.attrs \ module_attrs,
                         loops |-> r.end = "loop"]

\* The abandoned thread runs the statements left to it: bindings go to its
\* own namespace, an error to its own list (lines 269-275), an attribute
\* write to the module object of the host. It ends unless it loops.
AbandonedWorkerRuns ==
    /\ abandoned.live
    /\ abandoned.writes # {} \/ ~abandoned.loops
    /\ module_attrs' = module_attrs \cup abandoned.writes
    /\ abandoned' = IF abandoned.loops
                    THEN [abandoned EXCEPT !.writes = {}]
                    ELSE NoAbandoned
    /\ UNCHANGED <<op, pc, outcome, ecVars, ewVars, budget_wait, alive_seen, modules_at_start,
                   callerVars>>
    /\ UNCHANGED otherVars

Next ==
    \/ ExecuteCodeNext
    \/ ExecuteWithTimeoutNext
    \/ \E keep \in BOOLEAN : CallReturns(keep)

\* The steps of the caller's own thread inside a call: every one of them is
\* a statement that returns, the two joins because they carry a timeout.
CallerStep ==
    \/ CheckImportsParse
    \/ CheckImportsWalk
    \/ CheckImportsReturn
    \/ NamespaceBuild
    \/ ThreadStart
    \/ ThreadJoinFinished
    \/ ThreadJoinTimeout
    \/ ThreadIsAlive
    \/ ProcessStart
    \/ ProcessStartRaises
    \/ ProcessJoinFinished
    \/ ProcessJoinTimeout
    \/ ProcessIsAlive
    \/ GraceJoinFinished
    \/ GraceJoinTimeout
    \/ ProcessKill
    \/ RaiseTimeout

Spec == Init /\ [][Next]_vars


\* execute_code called with allow-lists that name a module the host cannot
\* import.
NamespaceNext ==
    \/ /\ op = "idle" /\ ~held /\ ~prev.set
       /\ \E c \in Sources, fn \in TargetNames, al \in UnloadableAllowLists :
             ExecuteCodeCall(c, fn, al)
    \/ CheckImportsParse
    \/ CheckImportsWalk
    \/ CheckImportsReturn
    \/ NamespaceBuild
    \/ ThreadStart
    \/ ExecWorkerStep
    \/ ExecWorkerExit
    \/ ThreadJoinFinished
    \/ ThreadJoinTimeout
    \/ ThreadIsAlive
    \/ CallReturns(FALSE)

NamespaceSpec == Init /\ [][NamespaceNext]_vars

\* The calls, with the worker thread of a timed-out definition followed
\* after its call has returned.
AbandonNext ==
    \/ Next
    \/ AbandonedReturns
    \/ AbandonedWorkerRuns

AbandonSpec == Init /\ [][AbandonNext]_vars

\* The caller's thread is scheduled; the workers and the signals are not
\* assumed to make progress.
FairSpec == Spec /\ WF_vars(CallerStep)

\* ------------------------------------------------------------ CodingAgent
\* A message of the conversation: its role, the number of the attempt it
\* belongs to, and for an answer whether it holds a python block.
Responses == {"code", "text"}
SystemMessage == [role |-> "system", turn |-> 0, content |-> "SYSTEM_PROMPT"]
UserMessage(n, prompt) == [role |-> "user", turn |-> n, content |-> prompt]
AssistantMessage(n, r) == [role |-> "assistant", turn |-> n, content |-> r]

\* Truncate that never shortens the history.
Truncate_Never(history) == history

\* agent.py:203-208: history[:3] + history[-4:] once it is longer than 10.
Truncate(history) ==
    IF Len(history) > 10
    THEN SubSeq(history, 1, 3) \o SubSeq(history, Len(history) - 3, Len(history))
    ELSE history

\* agent.py:161-169, generate_solution up to the call of client.chat: the
\* history is replaced by the system prompt and the initial prompt.
GenerateSolutionCall ==
    /\ agent_pc = "idle"
    /\ attempts < MaxAttempts
    /\ conversation_history' = <<SystemMessage, UserMessage(attempts, "initial")>>
    /\ agent_pc' = "generate_chat"
    /\ tracked' = TRUE
    /\ UNCHANGED <<attempts, sandboxVars, evaluatorVars, benchVars>>

\* agent.py:198-211, refine_solution up to the call of client.chat: the
\* history is truncated and the refinement prompt appended.
RefineSolutionCall ==
    /\ agent_pc = "idle"
    /\ attempts < MaxAttempts
    /\ conversation_history' = Append(Truncate(conversation_history), UserMessage(attempts, "refinement"))
    /\ agent_pc' = "refine_chat"
    /\ UNCHANGED <<attempts, tracked, sandboxVars, evaluatorVars, benchVars>>

\* agent.py:169-189 and 211-233: client.chat answered; the answer is
\* appended, the attempt recorded and the code returned.
ChatReturns(r) ==
    /\ agent_pc \in {"generate_chat", "refine_chat"}
    /\ conversation_history' = Append(conversation_history, AssistantMessage(attempts, r))
    /\ attempts' = attempts + 1
    /\ agent_pc' = "idle"
    /\ UNCHANGED <<tracked, sandboxVars, evaluatorVars, benchVars>>

\* client.chat raised (llm_client.py:71, raise_for_status): the exception
\* leaves the method with the prompt appended and no answer.
ChatRaises ==
    /\ agent_pc \in {"generate_chat", "refine_chat"}
    /\ agent_pc' = "idle"
    /\ tracked' = FALSE
    /\ UNCHANGED <<conversation_history, attempts, sandboxVars, evaluatorVars, benchVars>>

AgentNext ==
    \/ GenerateSolutionCall
    \/ RefineSolutionCall
    \/ \E r \in Responses : ChatReturns(r)
    \/ ChatRaises

AgentSpec == Init /\ [][AgentNext]_vars

\* --------------------------------------------------------------- Evaluator
\* What a solution does to the list it is handed.
Mutate(list, m) ==
    IF m = "append" THEN Append(list, 0)
    ELSE IF m = "clear" THEN <<>>
    ELSE IF m = "set_first" /\ list # <<>> THEN [list EXCEPT ![1] = 1 - list[1]]
    ELSE list

Positive(x) == x > 0
\* What a solution returns on its n-th call of the check: the filtered
\* list it received, the list object it was handed (as it left it), or a
\* value that changes from call to call.
ReturnValue(sol, received, n) ==
    IF sol.ret = "filtered" THEN SelectSeq(received, Positive)
    ELSE IF sol.ret = "argument" THEN Mutate(received, sol.mutation)
    ELSE <<n>>

\* RuleResult.success() and RuleResult.failed(scope=...).
Success == [ok |-> TRUE, scope |-> ""]
Failed(scope) == [ok |-> FALSE, scope |-> scope]

Checks == {"check_correct_output", "check_no_mutation", "check_deterministic"}

\* The framework calls one of the three checks with a solution and a test case.
CheckCall(chk, sol, inp, exp, tags) ==
    /\ eval_pc = "idle"
    /\ check' = chk
    /\ solution_fn' = sol
    /\ tc_input' = inp
    /\ tc_expected' = exp
    /\ tc_tags' = tags
    /\ input_at_call' = inp
    /\ results' = <<>>
    /\ eval_pc' = "copy"
    /\ UNCHANGED <<input_copy, arg_ref, rule_result, arg_before, sandboxVars, agentVars, benchVars>>

\* DeepCopy that hands out the list of the test case itself.
DeepCopy_Alias ==
    /\ eval_pc = "copy"
    /\ input_copy' = tc_input
    /\ arg_ref' = "input"
    /\ eval_pc' = "call"
    /\ UNCHANGED <<check, tc_input, tc_expected, tc_tags, solution_fn, results, rule_result,
                   input_at_call, arg_before, sandboxVars, agentVars, benchVars>>

\* evaluator.py:20, 35, 50: input_copy = copy.deepcopy(test_case.input), a
\* new list with the same elements.
DeepCopy ==
    /\ eval_pc = "copy"
    /\ input_copy' = tc_input
    /\ arg_ref' = "copy"
    /\ eval_pc' = "call"
    /\ UNCHANGED <<check, tc_input, tc_expected, tc_tags, solution_fn, results, rule_result,
                   input_at_call, arg_before, sandboxVars, agentVars, benchVars>>

\* The list the name input_copy refers to.
CopyContent == IF arg_ref = "input" THEN tc_input ELSE input_copy

\* evaluator.py:21, 36, 51: solution_fn(input_copy). The solution changes
\* the list it was handed and returns, or raises; check_deterministic goes
\* round three times.
SolutionRuns ==
    /\ eval_pc = "call"
    /\ arg_before' = CopyContent
    /\ IF arg_ref = "input"
       THEN /\ tc_input' = Mutate(tc_input, solution_fn.mutation)
            /\ UNCHANGED input_copy
       ELSE /\ input_copy' = Mutate(input_copy, solution_fn.mutation)
            /\ UNCHANGED tc_input
    /\ IF solution_fn.ret = "raise"
       THEN /\ eval_pc' = "raised"
            /\ UNCHANGED results
       ELSE /\ results' = Append(results, ReturnValue(solution_fn, CopyContent, Len(results)))
            /\ eval_pc' = IF check = "check_deterministic" /\ Len(results) < 2
                          THEN "copy" ELSE "compare"
    /\ UNCHANGED <<check, tc_expected, tc_tags, solution_fn, arg_ref, rule_result,
                   input_at_call, sandboxVars, agentVars, benchVars>>

\* evaluator.py:23-28, 38-41, 53-55: the comparison and the RuleResult.
CheckResult ==
    IF check = "check_correct_output" THEN
        IF results[1] = tc_expected THEN Success
        ELSE Failed(IF tc_tags # <<>> THEN tc_tags[1] ELSE "unknown")
    ELSE IF check = "check_no_mutation" THEN
        IF CopyContent = tc_input THEN Success ELSE Failed("direct")
    ELSE
        IF \A i \in 1..Len(results) : results[i] = results[1] THEN Success
        ELSE Failed("ordering")

Compare ==
    /\ eval_pc = "compare"
    /\ rule_result' = CheckResult
    /\ eval_pc' = "done"
    /\ UNCHANGED <<check, tc_input, tc_expected, tc_tags, solution_fn, input_copy, arg_ref,
                   results, input_at_call, arg_before, sandboxVars, agentVars, benchVars>>

\* The check has returned its RuleResult, or the solution's exception has
\* left it; the framework goes on to the next check.
CheckReturns ==
    /\ eval_pc \in {"done", "raised"}
    /\ check' = "none"
    /\ tc_input' = <<>>
    /\ tc_expected' = <<>>
    /\ tc_tags' = <<>>
    /\ solution_fn' = NoSolution
    /\ input_copy' = <<>>
    /\ arg_ref' = "none"
    /\ results' = <<>>
    /\ rule_result' = NoResult
    /\ eval_pc' = "idle"
    /\ input_at_call' = <<>>
    /\ arg_before' = <<>>
    /\ UNCHANGED <<sandboxVars, agentVars, benchVars>>

EvaluatorNext ==
    \/ /\ eval_pc = "idle"
       /\ \E chk \in Checks, sol \in Solutions, inp \in Lists(MaxInputLen),
             exp \in Lists(MaxInputLen), tags \in TagLists :
             CheckCall(chk, sol, inp, exp, tags)
    \/ DeepCopy
    \/ SolutionRuns
    \/ Compare
    \/ CheckReturns

EvaluatorSpec == Init /\ [][EvaluatorNext]_vars

\* ---------------------------------------------------- run_benchmark.main
\* The pair the loops are at.
CurrentPair == <<task_idx, model_idx>>

\* run_benchmark.py:91-140: the API key, the task directories (at least
\* one, lines 103-117) and the models are resolved and the loops entered.
MainResolved(nt, nm) ==
    /\ bench_pc = "idle"
    /\ task_dirs' = nt
    /\ models' = nm
    /\ task_idx' = 1
    /\ model_idx' = 1
    /\ all_results' = <<>>
    /\ task_results' = <<>>
    /\ bench_pc' = IF nm = 0 THEN "task_end" ELSE "run"
    /\ UNCHANGED <<attempted, failed_runs, comparison_reports, full_report, return_code,
                   sandboxVars, agentVars, evaluatorVars>>

\* The inner loop goes to the next model, or leaves the task.
AdvanceModel ==
    /\ model_idx' = model_idx + 1
    /\ bench_pc' = IF model_idx = models THEN "task_end" ELSE "run"

\* Lines 146-152: run_agent_on_task returned a RunResult.
RunAgentReturns ==
    /\ bench_pc = "run"
    /\ attempted' = Append(attempted, CurrentPair)
    /\ bench_pc' = "save"
    /\ UNCHANGED <<task_dirs, models, task_idx, model_idx, failed_runs, task_results,
                   all_results, comparison_reports, full_report, return_code,
                   sandboxVars, agentVars, evaluatorVars>>

\* RunAgentRaises whose exception ends the inner loop.
RunAgentRaises_Break ==
    /\ bench_pc = "run"
    /\ attempted' = Append(attempted, CurrentPair)
    /\ failed_runs' = failed_runs \cup {CurrentPair}
    /\ bench_pc' = "task_end"
    /\ UNCHANGED <<task_dirs, models, task_idx, model_idx, task_results, all_results,
                   comparison_reports, full_report, return_code,
                   sandboxVars, agentVars, evaluatorVars>>

\* Lines 146-152 and 162-165: run_agent_on_task raised an Exception; the
\* except clause prints it and the loop goes on.
RunAgentRaises ==
    /\ bench_pc = "run"
    /\ attempted' = Append(attempted, CurrentPair)
    /\ failed_runs' = failed_runs \cup {CurrentPair}
    /\ AdvanceModel
    /\ UNCHANGED <<task_dirs, models, task_idx, task_results, all_results,
                   comparison_reports, full_report, return_code,
                   sandboxVars, agentVars, evaluatorVars>>

\* Lines 155-160: the run's report is saved and the result appended to
\* task_results and all_results.
SaveRunResult ==
    /\ bench_pc = "save"
    /\ task_results' = Append(task_results, CurrentPair)
    /\ all_results' = Append(all_results, CurrentPair)
    /\ AdvanceModel
    /\ UNCHANGED <<task_dirs, models, task_idx, attempted, failed_runs,
                   comparison_reports, full_report, return_code,
                   sandboxVars, agentVars, evaluatorVars>>

\* Lines 155 and 162-165: save_run_result raised an Exception inside the
\* try block; nothing is appended.
SaveRunResultRaises ==
    /\ bench_pc = "save"
    /\ failed_runs' = failed_runs \cup {CurrentPair}
    /\ AdvanceModel
    /\ UNCHANGED <<task_dirs, models, task_idx, attempted, task_results, all_results,
                   comparison_reports, full_report, return_code,
                   sandboxVars, agentVars, evaluatorVars>>

\* Lines 167-173 and 139-140: the comparison report of a task with more
\* than one result, then the next task with an empty task_results.
TaskEnd ==
    /\ bench_pc = "task_end"
    /\ comparison_reports' =
          IF Len(task_results) > 1
          THEN Append(comparison_reports, [task |-> task_idx, results |-> task_results])
          ELSE comparison_reports
    /\ IF task_idx = task_dirs
       THEN /\ bench_pc' = "main_end"
            /\ UNCHANGED <<task_idx, model_idx, task_results>>
       ELSE /\ task_idx' = task_idx + 1
            /\ model_idx' = 1
            /\ task_results' = <<>>
            /\ bench_pc' = IF models = 0 THEN "task_end" ELSE "run"
    /\ UNCHANGED <<task_dirs, models, attempted, failed_runs, all_results, full_report,
                   return_code, sandboxVars, agentVars, evaluatorVars>>

\* Lines 175-181: the full report when there is a result, and return 0.
MainReturns ==
    /\ bench_pc = "main_end"
    /\ full_report' = IF all_results # <<>> THEN all_results ELSE NoReport
    /\ return_code' = 0
    /\ bench_pc' = "returned"
    /\ UNCHANGED <<task_dirs, models, task_idx, model_idx, attempted, failed_runs,
                   task_results, all_results, comparison_reports,
                   sandboxVars, agentVars, evaluatorVars>>

\* The process has exited; main can be started again.
MainExits ==
    /\ bench_pc = "returned"
    /\ task_dirs' = 0
    /\ models' = 0
    /\ task_idx' = 0
    /\ model_idx' = 0
    /\ bench_pc' = "idle"
    /\ attempted' = <<>>
    /\ failed_runs' = {}
    /\ task_results' = <<>>
    /\ all_results' = <<>>
    /\ comparison_reports' = <<>>
    /\ full_report' = NoReport
    /\ return_code' = -1
    /\ UNCHANGED <<sandboxVars, agentVars, evaluatorVars>>

BenchNext ==
    \/ /\ bench_pc = "idle"
       /\ \E nt \in 1..MaxTasks, nm \in 0..MaxModels : MainResolved(nt, nm)
    \/ RunAgentReturns
    \/ RunAgentRaises
    \/ SaveRunResult
    \/ SaveRunResultRaises
    \/ TaskEnd
    \/ MainReturns
    \/ MainExits

BenchSpec == Init /\ [][BenchNext]_vars

\* ------------------------------------------------------------ properties
IsRaise(o, cls) == o.kind = "raise" /\ o.cls = cls
ExecuteCodeDone == op = "execute_code" /\ pc = "done"
ExecuteWithTimeoutDone == op = "execute_with_timeout" /\ pc = "done"

\* C1: in execute_code the definition worker thread exists only after
\* _check_imports has returned without raising; while the gate is running,
\* or after it raised, there is no worker.
C1_GateBeforeWorker ==
    op = "execute_code" =>
        /\ thread # "none" => gate = "passed"
        /\ gate \in {"running", "raised"} => thread = "none" /\ wpos = 1

\* A worker is running the candidate after the gate has passed.
C1_Witness ==
    /\ op = "execute_code" /\ thread = "alive" /\ wpos > 1 /\ gate = "passed"

\* A static load of a module whose root name is not in the allowlist,
\* anywhere below the node: an import alias, a from-import that names a
\* module, or a call of __import__ by its bare name.
RECURSIVE ContainsDisallowedLoad(_, _)
ContainsDisallowedLoad(node, allowed) ==
    \/ /\ node.type = "Import"
       /\ \E i \in 1..Len(node.names) : ~InList(RootOf(node.names[i]), allowed)
    \/ /\ node.type = "ImportFrom"
       /\ node.module # NoModule
       /\ ~InList(RootOf(node.module), allowed)
    \/ /\ node.type = "Call"
       /\ node.func.type = "Name" /\ node.func.id = "__import__"
       /\ ~InList(RootOf(node.arg), allowed)
    \/ /\ node.type \in {"Module", "If", "FunctionDef", "ListComp"}
       /\ \E i \in 1..Len(node.body) : ContainsDisallowedLoad(node.body[i], allowed)

\* C2: a source that parses and contains, at any depth, a load of a module
\* whose root name is not allowed ends execute_code with
\* ImportViolationError raised by the gate, and no worker was started.
C2_DisallowedLoadRejected ==
    (ExecuteCodeDone /\ code.ok /\ ContainsDisallowedLoad(code.tree, allowed_imports))
        => /\ IsRaise(outcome, "ImportViolationError")
           /\ gate = "raised"
           /\ thread = "none"

\* The only disallowed load sits inside a def, an if or a comprehension.
C2_Witness ==
    /\ ExecuteCodeDone /\ code.ok
    /\ Len(code.tree.body) = 1
    /\ code.tree.body[1].type \in {"FunctionDef", "If", "ListComp"}
    /\ ContainsDisallowedLoad(code.tree, allowed_imports)
    /\ IsRaise(outcome, "ImportViolationError")

\* C10: for a source that does not parse, execute_code ends with the
\* ExecutionError "Syntax error" raised by the gate, and at no moment of the
\* call is the namespace built, a module pre-imported or the worker started.
C10_SyntaxErrorBeforeNamespace ==
    (op = "execute_code" /\ ~code.ok)
        => /\ namespace = EmptyNamespace
           /\ thread = "none"
           /\ pc \in {"check_imports", "done"}
           /\ pc = "done" => outcome = Raise("ExecutionError", "Syntax error") /\ gate = "raised"

C10_Witness ==
    /\ ExecuteCodeDone /\ ~code.ok /\ allowed_imports # <<>>
    /\ outcome = Raise("ExecutionError", "Syntax error")


ReceivedResult(f, a) ==
    IF f.beh = "return" THEN Return(Apply(f, a))
    ELSE Raise("ExecutionError", "ValueError: boom")

\* C4: a message the worker put on the channel before the budget elapsed is
\* what the caller of execute_with_timeout receives.
C4_PutInBudgetIsReceived ==
    (ExecuteWithTimeoutDone /\ put_in_budget) => outcome = ReceivedResult(func, args)

\* C5: for a callable that never returns, execute_with_timeout (once its
\* worker is spawned) raises TimeoutError and the worker process is not
\* running at that moment.
C5_LoopingWorkerGoneAtRaise ==
    (ExecuteWithTimeoutDone /\ process # "none" /\ func.beh = "loop")
        => IsRaise(outcome, "TimeoutError") /\ ~alive_at_raise

\* C6: on the timeout path SIGTERM is sent first, the grace join follows,
\* SIGKILL is sent only to a process still alive after it, never before
\* SIGTERM, and the caller gets TimeoutError on either path.
C6_TerminateGraceKill ==
    /\ [](op = "execute_with_timeout" =>
            /\ alive_seen = "alive" => sigterm
            /\ sigkill => sigterm /\ grace_wait # "none"
            /\ grace_wait # "none" => sigterm
            /\ (pc = "done" /\ sigterm) => IsRaise(outcome, "TimeoutError"))
    /\ [][(sigkill' /\ ~sigkill) => (sigterm /\ grace_wait # "none" /\ ProcessAlive)]_vars
    /\ [][(sigterm' /\ ~sigterm) => (~sigkill /\ grace_wait = "none" /\ ProcessAlive)]_vars

\* The forced path: SIGKILL was sent and the caller got TimeoutError.
C6_Witness ==
    /\ ExecuteWithTimeoutDone /\ sigkill /\ grace_wait = "elapsed"
    /\ IsRaise(outcome, "TimeoutError")

CrashMessage == "Process ended without returning a result"
Completed ==
    \/ outcome.kind = "return"
    \/ IsRaise(outcome, "ExecutionError") /\ outcome.msg # CrashMessage
TimedOut == IsRaise(outcome, "TimeoutError")
Crashed == IsRaise(outcome, "ExecutionError") /\ outcome.msg = CrashMessage

\* C7: every call of execute_with_timeout ends in one of the terminal states
\* Completed, TimedOut, Crashed.
C7_EndsInTerminalState ==
    ExecuteWithTimeoutDone => (Completed \/ TimedOut \/ Crashed)

\* The part of C7 that holds: once the worker is spawned the call ends, in
\* one of the three terminal states, and the timeout path is never left.
C7_SpawnedProtocol ==
    /\ []((ExecuteWithTimeoutDone /\ process # "none")
            => /\ Completed \/ TimedOut \/ Crashed
               /\ TimedOut <=> alive_seen = "alive")
    /\ [][(op = "execute_with_timeout" /\ pc \in {"grace_join", "is_alive_2", "raise_timeout"})
            => pc' \in {"grace_join", "is_alive_2", "raise_timeout", "done"}]_vars
    /\ ((op = "execute_with_timeout" /\ pc = "join") ~> (pc = "done"))

\* The top-level code of the source, run from the state the worker thread
\* was started in, reaches a statement that loops forever.
LoopsForever(src, allowed) ==
    RunAll(ExecSeq(src.tree.body), BuildNamespace(allowed), allowed, modules_at_start).end = "loop"

\* C8: for a candidate that the gate lets through and whose top-level code
\* never terminates, execute_code ends, by raising TimeoutError after the
\* budget wait, with the worker thread still running.
C8_StuckDefinitionTimesOut ==
    /\ []((ExecuteCodeDone /\ gate = "passed" /\ LoopsForever(code, allowed_imports))
            => /\ IsRaise(outcome, "TimeoutError")
               /\ budget_wait = "elapsed"
               /\ thread = "alive")
    /\ ((op = "execute_code" /\ pc = "join") ~> (pc = "done"))

C8_Witness ==
    /\ ExecuteCodeDone /\ gate = "passed" /\ LoopsForever(code, allowed_imports)
    /\ wpos > 1
    /\ IsRaise(outcome, "TimeoutError") /\ thread = "alive"

\* C9 as stated: a worker process that exited by itself without ever putting
\* a message makes the call raise the crash ExecutionError.
C9_SilentExitIsCrash ==
    (ExecuteWithTimeoutDone /\ process = "exited" /\ exit_cause = "self" /\ ~worker_put)
        => Crashed

\* C9, amended: a worker process that is_alive() finds ended after the budget
\* wait and that never put a message makes the call raise the crash
\* ExecutionError, not a value and not TimeoutError.
C9_DeadAndSilentIsCrash ==
    (ExecuteWithTimeoutDone /\ alive_seen = "dead" /\ ~worker_put)
        => outcome = Raise("ExecutionError", CrashMessage)

C9_Witness ==
    /\ ExecuteWithTimeoutDone /\ alive_seen = "dead" /\ ~worker_put
    /\ process = "exited" /\ func.beh = "crash"
    /\ outcome = Raise("ExecutionError", CrashMessage)

\* The worker's exec was stopped by the ImportError of the guarded hook.
HookStoppedDefinition ==
    /\ exec_error # <<>>
    /\ exec_error[1] = Raise("ExecutionError", "ImportError")

\* C11: a load of a module outside the allowlist that the gate let through
\* and that the guarded hook refused during the definition makes
\* execute_code raise ImportViolationError, not ExecutionError.
C11_HookRefusalIsImportViolation ==
    (ExecuteCodeDone /\ gate = "passed" /\ alive_seen = "dead" /\ HookStoppedDefinition)
        => IsRaise(outcome, "ImportViolationError")

\* The worker ran every top-level statement and recorded no error.
DefinitionCompleted ==
    /\ alive_seen = "dead"
    /\ exec_error = <<>>
    /\ wpos > Len(ExecSeq(code.tree.body))

\* C12: after a definition that completed without error, execute_code
\* returns only if the target name is bound to a callable, and a target that
\* is absent or not callable is reported with a class other than the
\* ExecutionError used for the errors the candidate raises.
C12_TargetMissingIsDistinctKind ==
    (ExecuteCodeDone /\ gate = "passed" /\ DefinitionCompleted)
        => /\ outcome.kind = "return" => namespace[function_name] = "callable"
           /\ namespace[function_name] # "callable"
                => outcome.kind = "raise" /\ outcome.cls # "ExecutionError"

\* C13: every exception that execute_code or execute_with_timeout raises to
\* its caller is of a subclass of SandboxError.
C13_FailuresAreSandboxErrors ==
    (pc = "done" /\ outcome.kind = "raise") => outcome.cls \in SandboxError

\* C14: for a candidate that uses no disallowed load and defines the target
\* as a function that returns v for args within the budget, execute_code
\* followed by execute_with_timeout on the returned callable yields v.
C14_DefinedThenInvokedYieldsValue ==
    (ExecuteWithTimeoutDone /\ from_code /\ func.beh = "return" /\ budget_wait # "elapsed")
        => outcome = Return(Apply(func, args))

\* C15: the worker process is handed the source text, the target name and
\* the allowlist, and no callable of the caller's namespace.
C15_WorkerReceivesSourceNotCallable ==
    (op = "execute_with_timeout" /\ process # "none")
        => /\ \E i \in 1..Len(process_args) : process_args[i] = "source"
           /\ \A i \in 1..Len(process_args) : process_args[i] # "callable"

\* C16: every execute_with_timeout call creates one worker process, and a
\* call that repeats the one before it, same callable and same arguments,
\* has the same outcome.
C16_FreshProcessSameOutcome ==
    ExecuteWithTimeoutDone
        => /\ process # "none"
           /\ prev.set => outcome = prev.outcome

\* What execute_code gives for a source, a target name and an allowlist when
\* exec ends within the budget and no candidate ran before: the modules
\* carry no attribute written by a candidate.
CleanOutcome(src, fn, allowed) ==
    LET r == RunAll(ExecSeq(src.tree.body), BuildNamespace(allowed), allowed, {}) IN
    IF r.end \in {"ok", "BaseException"} THEN DefinitionResult(<<>>, r.ns, fn)
    ELSE Raise("ExecutionError", r.end)

\* C17: the outcome of an execute_code call depends only on that call's
\* source, target name, allowlist and budget: whatever candidates ran
\* before, a definition that ended within the budget has the outcome it has
\* on a host no candidate has touched.
C17_OutcomeIndependentOfEarlierCalls ==
    (ExecuteCodeDone /\ gate = "passed" /\ alive_seen = "dead")
        => outcome = CleanOutcome(code, function_name, allowed_imports)

\* An import statement (import or from-import) anywhere below the node.
RECURSIVE ContainsImport(_)
ContainsImport(node) ==
    \/ node.type \in {"Import", "ImportFrom"}
    \/ /\ node.type \in {"Module", "If", "FunctionDef", "ListComp"}
       /\ \E i \in 1..Len(node.body) : ContainsImport(node.body[i])

\* A direct call of __import__, by name or through a subscript, below the node.
RECURSIVE ContainsImportCall(_)
ContainsImportCall(node) ==
    \/ node.type = "Call" /\ node.func.id = "__import__"
    \/ /\ node.type \in {"Module", "If", "FunctionDef", "ListComp"}
       /\ \E i \in 1..Len(node.body) : ContainsImportCall(node.body[i])

\* Every import statement below the node has its root names in the allowlist.
RECURSIVE ImportsWithin(_, _)
ImportsWithin(node, allowed) ==
    /\ node.type = "Import"
         => \A i \in 1..Len(node.names) : InList(RootOf(node.names[i]), allowed)
    /\ node.type = "ImportFrom"
         => node.module # NoModule /\ InList(RootOf(node.module), allowed)
    /\ node.type \in {"Module", "If", "FunctionDef", "ListComp"}
         => \A i \in 1..Len(node.body) : ImportsWithin(node.body[i], allowed)

\* C18: with the empty allowlist every source that imports a module ends
\* with ImportViolationError; with an allowlist that holds the root name of
\* every import statement of a source that does not call __import__,
\* neither the gate nor the hook refuses, and the definition returns the
\* target when it completed and bound it to a callable.
C18_EmptyRejectsAllAllowedPass ==
    /\ (ExecuteCodeDone /\ code.ok /\ allowed_imports = <<>> /\ ContainsImport(code.tree))
            => IsRaise(outcome, "ImportViolationError")
    /\ (ExecuteCodeDone /\ code.ok /\ ImportsWithin(code.tree, allowed_imports)
          /\ ~ContainsImportCall(code.tree))
            => /\ gate = "passed"
               /\ ~HookStoppedDefinition
               /\ (DefinitionCompleted /\ namespace[function_name] = "callable")
                      => outcome = Return(FuncVal(function_name))

\* C19: execute_code returns a callable only if the candidate's top-level
\* code ran to its end without raising.
C19_ReturnsOnlyAfterCleanRun ==
    (ExecuteCodeDone /\ outcome.kind = "return")
        => wpos > Len(ExecSeq(code.tree.body))

\* A from-import that names no module (from . import x) below the node.
RECURSIVE ContainsBareFromImport(_)
ContainsBareFromImport(node) ==
    \/ node.type = "ImportFrom" /\ node.module = NoModule
    \/ /\ node.type \in {"Module", "If", "FunctionDef", "ListComp"}
       /\ \E i \in 1..Len(node.body) : ContainsBareFromImport(node.body[i])

\* C20: a source with a from-import that names no module is rejected by
\* _check_imports with ImportViolationError.
C20_BareFromImportRejected ==
    (ExecuteCodeDone /\ code.ok /\ ContainsBareFromImport(code.tree))
        => gate = "raised" /\ IsRaise(outcome, "ImportViolationError")

\* A call whose callee is the bare name __import__, anywhere below the node.
RECURSIVE ContainsNamedImportCall(_)
ContainsNamedImportCall(node) ==
    \/ node.type = "Call" /\ node.func.type = "Name" /\ node.func.id = "__import__"
    \/ /\ node.type \in {"Module", "If", "FunctionDef", "ListComp"}
       /\ \E i \in 1..Len(node.body) : ContainsNamedImportCall(node.body[i])

\* C21: a source that parses and contains a call whose callee is the bare
\* name __import__ ends execute_code with ImportViolationError raised by
\* _check_imports, also when the module asked for is in the allowlist.
C21_NamedImportCallRejected ==
    (ExecuteCodeDone /\ code.ok /\ ContainsNamedImportCall(code.tree))
        => /\ IsRaise(outcome, "ImportViolationError")
           /\ gate = "raised"
           /\ thread = "none"

\* The call asks for a module of the allowlist, sits inside a def, and is
\* the node the gate raised on.
C21_Witness ==
    /\ ExecuteCodeDone /\ code.ok
    /\ allowed_imports = <<"os">>
    /\ Len(code.tree.body) = 1
    /\ code.tree.body[1].type = "FunctionDef"
    /\ ContainsNamedImportCall(code.tree)
    /\ outcome = Raise("ImportViolationError", "Use of __import__() is not allowed")

\* C22: what the abandoned worker thread of a timed-out execute_code call
\* writes after the call has returned stays in the objects of that call: a
\* step of the abandoned thread changes nothing that a later call reads.
C22_AbandonedWritesConfined ==
    [][AbandonedWorkerRuns => UNCHANGED module_attrs]_vars

\* The name is bound in the namespace.
Bound(ns, name) == name \in DOMAIN ns /\ ns[name] # Unbound

\* The namespace is built and the worker thread not yet started.
NamespaceBuilt == op = "execute_code" /\ pc = "start" /\ thread = "none"

\* The candidate is one statement that uses the module by its name alone.
UsesModuleByName(src, m) ==
    /\ src.ok
    /\ ExecSeq(src.tree.body) \in {<<GetAttrNode(m)>>, <<SetAttrNode(m)>>}

\* C23 as stated: once the namespace is built, and before the candidate
\* runs, every name of the allowlist is bound in it.
C23_EveryAllowedNameBound ==
    NamespaceBuilt => \A i \in 1..Len(allowed_imports) : Bound(namespace, allowed_imports[i])

\* C23, amended: once the namespace is built, and before the candidate
\* runs, a name of the allowlist is bound to its module exactly when the
\* host can import it; a candidate that uses such a module by its name,
\* without an import, meets neither a NameError nor the hook's ImportError.
C23_ImportableAllowedNamesBound ==
    /\ NamespaceBuilt
         => \A i \in 1..Len(allowed_imports) :
               IF allowed_imports[i] \in Importable
               THEN namespace[allowed_imports[i]] = "module"
               ELSE ~Bound(namespace, allowed_imports[i])
    /\ \A m \in Importable :
         (ExecuteCodeDone /\ alive_seen = "dead" /\ InList(m, allowed_imports)
            /\ UsesModuleByName(code, m))
           => /\ outcome.msg \notin {"NameError", "ImportError"}
              /\ namespace[m] = "module"

\* The allowlist names a module the host has and one it has not, and the
\* candidate has used the first by its name.
C23_Witness ==
    /\ ExecuteCodeDone /\ alive_seen = "dead"
    /\ allowed_imports = <<"nosuch", "math">>
    /\ UsesModuleByName(code, "math")
    /\ namespace["math"] = "module" /\ ~Bound(namespace, "nosuch")
    /\ outcome.msg = "AttributeError"

C25_InputUntouchedCopyCompared ==
    /\ eval_pc # "idle" => tc_input = input_at_call
    /\ eval_pc \in {"call", "compare", "done", "raised"} => arg_ref = "copy"
    /\ (eval_pc \in {"copy", "compare", "done", "raised"} /\ (results # <<>> \/ eval_pc = "raised"))
          => arg_before = tc_input
    /\ (check = "check_no_mutation" /\ eval_pc = "done")
          => /\ rule_result.ok <=> input_copy = tc_input
             /\ ~rule_result.ok => rule_result.scope = "direct"

\* check_no_mutation has failed a solution that changed its argument.
C25_Witness ==
    /\ check = "check_no_mutation" /\ eval_pc = "done"
    /\ solution_fn.mutation = "set_first"
    /\ input_copy # tc_input /\ tc_input = input_at_call /\ tc_input # <<>>
    /\ rule_result = Failed("direct")

\* The i-th pair in task-major order.
PairAt(i) == <<((i - 1) \div models) + 1, ((i - 1) % models) + 1>>

\* The pairs of the sequence whose run did not fail.
Succeeded(pairs) ==
    LET Ok(p) == p \notin failed_runs IN SelectSeq(pairs, Ok)

\* The pairs of the sequence that belong to the task.
OfTask(pairs, t) ==
    LET Mine(p) == p[1] = t IN SelectSeq(pairs, Mine)

\* C26: in main, once the key, the tasks and the models are resolved, the
\* (task, model) pairs are attempted once each in task-major order; a run
\* that raised stops none of the pairs after it and leaves no result in
\* task_results, all_results or a report; and main returns 0.
C26_EveryPairOnceFailuresSkipped ==
    /\ bench_pc # "idle"
         => /\ \A i \in 1..Len(attempted) : attempted[i] = PairAt(i)
            /\ \A i \in 1..Len(all_results) : all_results[i] \notin failed_runs
            /\ \A i \in 1..Len(task_results) : task_results[i] \notin failed_runs
    /\ bench_pc = "returned"
         => /\ Len(attempted) = task_dirs * models
            /\ return_code = 0
            /\ all_results = Succeeded(attempted)
            /\ full_report = IF all_results = <<>> THEN NoReport ELSE Succeeded(attempted)
            /\ \A i \in 1..Len(comparison_reports) :
                  comparison_reports[i].results
                     = OfTask(Succeeded(attempted), comparison_reports[i].task)
            /\ \A t \in 1..task_dirs :
                  Len(OfTask(Succeeded(attempted), t)) > 1
                     <=> \E i \in 1..Len(comparison_reports) : comparison_reports[i].task = t

\* The first run raised, every later pair was still run, and the reports
\* hold the three results of the runs that succeeded.
C26_Witness ==
    /\ bench_pc = "returned" /\ return_code = 0
    /\ task_dirs = 2 /\ models = 2
    /\ failed_runs = {<<1, 1>>}
    /\ Len(attempted) = 4
    /\ full_report = <<<<1, 2>>, <<2, 1>>, <<2, 2>>>>
    /\ Len(comparison_reports) = 1

====
